---- MODULE Spec2Model ----
(***************************************************************************)
(* Model of gui/webdisplay/src/TWebWindowsManager.cxx: the window manager  *)
(* that owns the THttpServer, creates windows, shows them in a display     *)
(* client, halts spawned clients and offers the WaitFor polling loop.      *)
(***************************************************************************)
EXTENDS Integers, Sequences, FiniteSets, TLC

VARIABLES
    mgr,        \* which manager this is: the one Instance() returns, or another
    hasCef,     \* build: R__HAS_CEFWEB is defined
    hasQt5,     \* build: R__HAS_QT5WEB is defined
    msc,        \* build: _MSC_VER is defined
    fServer,    \* TWebWindowsManager::fServer is non-null
    fAddr,      \* TWebWindowsManager::fAddr, "" when no http engine is bound
    fIdCnt,     \* TWebWindowsManager::fIdCnt
    wins,       \* the windows made by CreateWindow, in the order of creation
    fKeys,      \* each window's key table: key -> tag
    last,       \* the last manager call: its arguments, result and effects
    wf,         \* WaitFor: the locals of the call in progress
    thr,        \* threads inside CreateHttpServer(true): position and locals
    engines     \* the ports on which the threads' CreateEngine calls succeeded

vars == <<mgr, hasCef, hasQt5, msc, fServer, fAddr, fIdCnt, wins, fKeys, last, wf, thr, engines>>

mgrVars == <<mgr, hasCef, hasQt5, msc, fServer, fAddr, fIdCnt, wins, fKeys, last, thr, engines>>

\* static std::shared_ptr<TWebWindowsManager> sInstance: the default manager
Instance == "sInstance"

\* the managers there can be: the default one, and one made by
\* std::make_shared<TWebWindowsManager>() elsewhere
Managers == {Instance, "made"}

-----------------------------------------------------------------------------
(* Bounds of the model *)

MaxWin == 2         \* windows created in one run
MaxUnreg == 2       \* Unregister calls followed per window
MaxFail == 2        \* small numbers of failing CreateEngine calls tried
RndDen == 3         \* gRandom->Rndm() is drawn from {1/RndDen .. (RndDen-1)/RndDen}

(* Program constants *)

NTry == 100         \* int ntry = 100

Min(a, b) == IF a < b THEN a ELSE b

-----------------------------------------------------------------------------
(* gEnv: the configuration read by CreateHttpServer *)

\* WebGui.HttpPort (default 0)
HttpPorts == {-1, 0, 8080}

\* WebGui.HttpPortMin / WebGui.HttpPortMax (defaults 8800, 9800)
HttpRanges == {<<8800, 9800>>, <<8800, 8802>>, <<8800, 8800>>, <<8802, 8800>>, <<0, 5>>}

\* WebGui.UseHttps, WebGui.HttpLoopback, WebGui.HttpBind
HostCfgs ==
    { [use_secure |-> FALSE, assign_loopback |-> FALSE, http_bind |-> ""],
      [use_secure |-> TRUE,  assign_loopback |-> TRUE,  http_bind |-> ""],
      [use_secure |-> FALSE, assign_loopback |-> FALSE, http_bind |-> "myhost"] }

Cfgs ==
    { [http_port |-> p, http_min |-> r[1], http_max |-> r[2], host |-> h] :
        p \in HttpPorts, r \in HttpRanges, h \in HostCfgs }

\* the configuration of a call that reads none
NoCfg == [http_port |-> 0, http_min |-> 0, http_max |-> 0]

PortCfg(cfg) ==
    [http_port |-> cfg.http_port, http_min |-> cfg.http_min, http_max |-> cfg.http_max]

\* the numerators of the values gRandom->Rndm() returns, all in ]0,1[
RndNums == 1 .. (RndDen - 1)

DefaultHost == [use_secure |-> FALSE, assign_loopback |-> FALSE, http_bind |-> ""]

\* One call of CreateHttpServer reads a configuration cfg, gets a value rn from
\* gRandom, and finds that the first nfail calls of CreateEngine fail and the
\* later ones succeed.
\* Every port setting with a few failures:
FewFailures ==
    {[cfg |-> c, nfail |-> n, rn |-> r] :
        c \in {x \in Cfgs : x.host = DefaultHost}, n \in 0 .. (MaxFail + 1), r \in RndNums}

\* every host setting, with the default ports:
EveryHost ==
    {[cfg |-> c, nfail |-> 0, rn |-> 1] :
        c \in {x \in Cfgs : x.http_port = 0 /\ x.http_min = 8800 /\ x.http_max = 9800}}

\* the default range of a thousand ports with failures around NTry:
ManyFailures ==
    {[cfg |-> c, nfail |-> n, rn |-> 1] :
        c \in {x \in Cfgs : x.host = DefaultHost /\ x.http_port >= 0
                            /\ x.http_min = 8800 /\ x.http_max = 9800},
        n \in {NTry - 1, NTry, NTry + 1}}

\* the inputs of the specification of the server
SrvU == FewFailures \cup EveryHost \cup ManyFailures

\* the inputs of the specification of Show: a range of two ports, or a wrong
\* range, and one draw
ShowU ==
    {in \in FewFailures :
        /\ in.rn = 1
        /\ <<in.cfg.http_min, in.cfg.http_max>> \in {<<8800, 8802>>, <<0, 5>>}
        /\ in.cfg.http_port # 0 => in.nfail <= 1
        /\ in.cfg.http_port < 0 \/ in.cfg.http_min <= 0 => in.nfail = 1}

-----------------------------------------------------------------------------
(* CreateHttpServer *)

\* http_port = (int)(http_min + (http_max - http_min) * gRandom->Rndm(1))
DrawPort(http_min, http_max, rn) == http_min + ((http_max - http_min) * rn) \div RndDen

\* url, then fAddr = url + ":" + to_string(http_port), as a sequence of atoms
BoundAddr(host, http_port) ==
    LET scheme == IF host.use_secure THEN "https://" ELSE "http://"
        name == IF host.assign_loopback THEN "localhost"
                ELSE IF host.http_bind # "" THEN host.http_bind
                ELSE "localhost"
    IN  <<scheme, name, ":", ToString(http_port)>>

\* if ((http_min <= 0) || (http_max <= http_min)), tested when no port is fixed
BadRange(http_port, cfg) ==
    http_port = 0 /\ (cfg.http_min <= 0 \/ cfg.http_max <= cfg.http_min)

\* the port of one attempt: the fixed one, or a freshly drawn one
AttemptPort(http_port, cfg, rn) ==
    IF http_port = 0 THEN DrawPort(cfg.http_min, cfg.http_max, rn) ELSE http_port

\* a loop that writes fAddr before it asks CreateEngine, against which
\* ServerAfterFailure is tried
BindStepEager(b, cfg, nfail, rn) ==
    IF b.done THEN b
    ELSE IF ~(b.ntry >= 0)
    THEN [b EXCEPT !.done = TRUE, !.ret = FALSE, !.ntry = b.ntry - 1]
    ELSE IF BadRange(b.http_port, cfg)
    THEN [b EXCEPT !.done = TRUE, !.ret = FALSE, !.ntry = b.ntry - 1]
    ELSE [b EXCEPT !.done = b.calls + 1 > nfail, !.ret = b.calls + 1 > nfail,
                   !.ntry = b.ntry - 1, !.calls = b.calls + 1, !.http_port = 0,
                   !.fAddr = BoundAddr(cfg.host, AttemptPort(b.http_port, cfg, rn))]

\* one evaluation of the loop test "ntry-- >= 0" followed, when it holds, by one
\* pass through the body; b holds the loop's variables ntry and http_port, the
\* number of CreateEngine calls made, and how the function returned, if it has
BindStep(b, cfg, nfail, rn) ==
    IF b.done THEN b
    ELSE IF ~(b.ntry >= 0)
    THEN [b EXCEPT !.done = TRUE, !.ret = FALSE, !.ntry = b.ntry - 1]
    ELSE IF BadRange(b.http_port, cfg)
    THEN [b EXCEPT !.done = TRUE, !.ret = FALSE, !.ntry = b.ntry - 1]
    ELSE IF b.calls + 1 > nfail
    THEN [b EXCEPT !.done = TRUE, !.ret = TRUE, !.ntry = b.ntry - 1,
                   !.calls = b.calls + 1,
                   !.fAddr = BoundAddr(cfg.host, AttemptPort(b.http_port, cfg, rn))]
    ELSE [b EXCEPT !.ntry = b.ntry - 1, !.calls = b.calls + 1, !.http_port = 0]

\* n evaluations of the loop test, one after the other
RECURSIVE BindRun(_, _, _, _, _)
BindRun(n, b, cfg, nfail, rn) ==
    IF b.done \/ n = 0 THEN b
    ELSE IF n = 1 THEN BindStep(b, cfg, nfail, rn)
    ELSE BindRun(n - (n \div 2), BindRun(n \div 2, b, cfg, nfail, rn), cfg, nfail, rn)

\* if (http_max - http_min < ntry) ntry = http_max - http_min;
TryCount(cfg) ==
    IF cfg.http_max - cfg.http_min < NTry THEN cfg.http_max - cfg.http_min ELSE NTry

\* while (ntry-- >= 0) { ... } return false: the test is evaluated at most
\* NTry + 2 times, ntry being at most NTry when the loop is entered
BindLoop(addr, cfg, nfail, rn) ==
    BindRun(NTry + 2,
            [ntry |-> TryCount(cfg), http_port |-> cfg.http_port, calls |-> 0,
             done |-> FALSE, ret |-> FALSE, fAddr |-> addr],
            cfg, nfail, rn)

\* a CreateHttpServer that forgets the address it has bound, against which
\* IdempotentServer is tried
AlreadyDoneForgetful(with_http, addr) == ~with_http

\* if (!with_http || !fAddr.empty()) return true;
AlreadyDone(with_http, addr) == ~with_http \/ addr # <<>>

\* a CreateHttpServer that takes a negative port for a port to bind, against
\* which NegativePortRefused is tried
CreateHttpServerOpAnyPort(addr, with_http, cfg, nfail, rn) ==
    IF AlreadyDone(with_http, addr)
    THEN [ret |-> TRUE, fAddr |-> addr, calls |-> 0, cfg |-> NoCfg]
    ELSE LET b == BindLoop(addr, cfg, nfail, rn)
         IN  [ret |-> b.ret, fAddr |-> b.fAddr, calls |-> b.calls, cfg |-> PortCfg(cfg)]

\* the whole of CreateHttpServer(with_http) from a manager with the given fAddr;
\* the server object exists on every return
CreateHttpServerOp(addr, with_http, cfg, nfail, rn) ==
    IF AlreadyDone(with_http, addr)
    THEN [ret |-> TRUE, fAddr |-> addr, calls |-> 0, cfg |-> NoCfg]
    ELSE IF cfg.http_port < 0
    THEN [ret |-> FALSE, fAddr |-> addr, calls |-> 0, cfg |-> PortCfg(cfg)]
    ELSE LET b == BindLoop(addr, cfg, nfail, rn)
         IN  [ret |-> b.ret, fAddr |-> b.fAddr, calls |-> b.calls, cfg |-> PortCfg(cfg)]

\* what CreateHttpServer(with_http) reads, out of the inputs U of a
\* specification: nothing when it returns at once
ServerInputs(addr, with_http, U) ==
    IF AlreadyDone(with_http, addr) THEN {CHOOSE in \in U : TRUE} ELSE U

-----------------------------------------------------------------------------
(* Strings that are taken apart are sequences of atoms: single characters, *)
(* the placeholders and words of a command template, or a spliced-in value *)

sEmpty == <<>>
sNative == <<"n", "a", "t", "i", "v", "e">>
sCef == <<"c", "e", "f">>
sQt5 == <<"q", "t", "5">>
sChrome == <<"c", "h", "r", "o", "m", "e">>
sChromium == <<"c", "h", "r", "o", "m", "i", "u", "m">>
sFirefox == <<"f", "i", "r", "e", "f", "o", "x">>
sBrowser == <<"b", "r", "o", "w", "s", "e", "r">>
sPidPrefix == <<"p", "i", "d", ":">>

Digits == <<"0", "1", "2", "3", "4", "5", "6", "7", "8", "9">>

DigitVal(c) == (CHOOSE i \in 1 .. 10 : Digits[i] = c) - 1

IsDigit(c) == \E i \in 1 .. 10 : Digits[i] = c

\* std::to_string of a non-negative int: its decimal digits
RECURSIVE DecDigits(_)
DecDigits(n) ==
    IF n < 10 THEN <<Digits[n + 1]>> ELSE Append(DecDigits(n \div 10), Digits[(n % 10) + 1])

\* std::to_string(int)
ToDec(n) == IF n < 0 THEN <<"-">> \o DecDigits(-n) ELSE DecDigits(n)

\* s.find(pre) == 0
StartsWith(s, pre) == Len(s) >= Len(pre) /\ SubSeq(s, 1, Len(pre)) = pre

\* s.substr(n)
Substr(s, n) == SubSeq(s, n + 1, Len(s))

\* s.find("$") != npos: a "$" is the first character of a placeholder atom
HasDollar(s) == \E i \in 1 .. Len(s) : s[i] \in {"$", "$url", "$width", "$height", "$prog"}

\* TString::ReplaceAll(from, to) for a placeholder atom
ReplaceAll(s, from, to) == [i \in 1 .. Len(s) |-> IF s[i] = from THEN to ELSE s[i]]

\* the number of tokens TString::Tokenize(" ") yields: the maximal runs of
\* atoms other than " "
NTokens(s) ==
    Cardinality({i \in 1 .. Len(s) : s[i] # " " /\ (i = 1 \/ s[i - 1] = " ")})

-----------------------------------------------------------------------------
(* Windows *)

\* bool CreateHttpServer(bool with_http = false), the declaration's default
DefaultWithHttp == FALSE

\* the name CreateWSHandler gives the window's handler
HandlerName(id) == "win" \o ToString(id)

\* TWebWindow::HasKey
HasKey(table, key) == \E e \in table : e[1] = key

\* TWebWindow::AddKey: the table maps the key to the tag
AddKey(table, key, tag) == {e \in table : e[1] # key} \cup {<<key, tag>>}

\* the local part of GetUrl: "/web7gui/" + name + ("/?batch_mode" or "/")
LocalUrl(id, batch) ==
    <<"/web7gui/", HandlerName(id), IF batch THEN "/?batch_mode" ELSE "/">>

\* the whole of GetUrl(win, remote)
GetUrlOp(srv, addr, id, batch, remote, cfg, nfail, rn) ==
    IF ~srv
    THEN [url |-> <<>>, fAddr |-> addr, calls |-> 0, cfg |-> NoCfg]
    ELSE IF ~remote
    THEN [url |-> LocalUrl(id, batch), fAddr |-> addr, calls |-> 0, cfg |-> NoCfg]
    ELSE LET r == CreateHttpServerOp(addr, TRUE, cfg, nfail, rn)
         IN  [url |-> IF r.ret THEN r.fAddr \o LocalUrl(id, batch) ELSE <<>>,
              fAddr |-> r.fAddr, calls |-> r.calls, cfg |-> r.cfg]

-----------------------------------------------------------------------------
(* Show: the inputs it reads *)

NKeyTry == 1000     \* int ntry = 1000
MaxKey == 1         \* gRandom->Integer(0x100000) is drawn from 0 .. MaxKey
MaxPid == 12        \* the largest process id posix_spawn hands out

\* key = std::to_string(gRandom->Integer(0x100000))
KeyStrs == {ToString(k) : k \in 0 .. MaxKey}

\* the keys gRandom yields in one Show: ncoll times ckey, and key from then on
KeyDraws ==
    {d \in [ncoll : {0, NKeyTry - 2, NKeyTry - 1}, ckey : KeyStrs, key : KeyStrs] :
        (d.ncoll = 0) <=> (d.ckey = d.key)}

\* the where argument of Show
sPid7 == <<"p", "i", "d", ":", "7">>
sCustom == <<"x", " ", "$url">>
WhereSet == {sEmpty, sCef, sQt5, sChrome, sFirefox, sBrowser, sPid7, sCustom}

\* gROOT->GetWebDisplay()
WebDisplays == {sEmpty, sChromium}

\* gSystem->Getenv("DISPLAY"): a null pointer, an empty string, a display
Displays == {"null", "empty", ":0"}

\* CEF_PATH, ROOTSYS and the symbol webgui_start_browser_in_cef3: whether the
\* paths are set and accessible, and whether the symbol is found in the end
CefEnvs == {"nopath", "nosymbol", "ok"}

\* gSystem->InheritsFrom(...)
Systems == {"TUnixSystem", "TMacOSXSystem", "TWinNTSystem"}

\* posix_spawn: a status other than 0, or 0 and the child's process id
SpawnOutcomes ==
    {[status |-> 1, pid |-> 0]} \cup {[status |-> 0, pid |-> p] : p \in {7, MaxPid}}

\* the value gEnv holds for the command template of a mode: none, so that the
\* default in the code applies, or one of three configured values
TmplCfgs == {"default", "forkone", "forktwo", "shell"}

Template(name, tc) ==
    CASE tc = "forkone" -> <<"fork:", "$url">>
      [] tc = "forktwo" -> <<"fork:", "--kiosk", " ", "$url">>
      [] tc = "shell" -> <<"$prog", " ", "$url", " ", "&">>
      [] tc = "default" /\ name = "ChromeBatch" ->
            <<"fork:", "--headless", " ", "--disable-gpu", " ", "--disable-webgl", " ",
              "--remote-debugging-socket-fd=0", " ", "$url">>
      [] tc = "default" /\ name = "ChromeInteractive" ->
            <<"$prog", " ", "--window-size=", "$width", ",", "$height", " ",
              "--app='", "$url", "'", " ", "&">>
      [] tc = "default" /\ name = "FirefoxBatch" ->
            <<"fork:", "-headless", " ", "-no-remote", " ", "-window-size=", "$width",
              ",", "$height", " ", "$url">>
      [] tc = "default" /\ name = "FirefoxInteractive" ->
            <<"$prog", " ", "'", "$url", "'", " ", "&">>

-----------------------------------------------------------------------------
(* Show: its steps *)

\* do { key = ... } while ((--ntry > 0) && win.HasKey(key)), run by run
\* of equal draws. The first pass of a run of a key that is not in the table
\* leaves the loop, after --ntry. In a run of n draws of a key that is in the
\* table every pass only counts ntry down: the loop is left with ntry = 0 in the
\* run if ntry <= n, and goes on to the next run with ntry - n if not.
RECURSIVE KeyLoopFrom(_, _, _, _)
KeyLoopFrom(ntry, key, runs, table) ==
    IF runs = <<>> THEN [ntry |-> ntry, key |-> key]
    ELSE LET r == Head(runs)
         IN  IF r.n = 0 THEN KeyLoopFrom(ntry, key, Tail(runs), table)
             ELSE IF ~HasKey(table, r.key) THEN [ntry |-> ntry - 1, key |-> r.key]
             ELSE IF ntry - r.n <= 0 THEN [ntry |-> 0, key |-> r.key]
             ELSE KeyLoopFrom(ntry - r.n, r.key, Tail(runs), table)

\* a loop that takes the first key drawn without a look at the table, against
\* which KeysUnique is tried
KeyLoopFirstDraw(table, d) ==
    [ntry |-> NKeyTry - 1, key |-> IF d.ncoll > 0 THEN d.ckey ELSE d.key]

\* the whole loop, from ntry = 1000, on the draws d: the second run is as long
\* as the loop can be
KeyLoop(table, d) ==
    KeyLoopFrom(NKeyTry, "",
                <<[key |-> d.ckey, n |-> d.ncoll], [key |-> d.key, n |-> NKeyTry]>>,
                table)

\* addr.find("?") != npos: the atoms of a url that hold a "?"
HasQuery(url) == \E i \in 1 .. Len(url) : url[i] \in {"/?batch_mode", "?key="}

\* a url that gets its key joined with "&" whatever it holds, against which
\* ShowUrlExact is tried
KeyUrlAmp(local, key) == local \o <<"&key=", key>>

\* addr = GetUrl(win, false), then "&key=" or "?key=", then the key
KeyUrl(local, key) ==
    local \o <<IF HasQuery(local) THEN "&key=" ELSE "?key=", key>>

\* addr.c_str(): the atoms of a url joined into one string
RECURSIVE Joined(_)
Joined(url) == IF url = <<>> THEN "" ELSE Head(url) \o Joined(Tail(url))

\* where = _where, or gROOT->GetWebDisplay() when that is empty
Where(where_, webdisplay) == IF where_ = sEmpty THEN webdisplay ELSE where_

\* is_native, is_qt5, is_cef, is_chrome, is_firefox, with the R__HAS_CEFWEB block
Flags(where, cefweb) ==
    LET native == where = sEmpty \/ where = sNative
    IN  [native |-> native,
         qt5 |-> where = sQt5,
         cef |-> where = sCef \/ (cefweb /\ native),
         chrome |-> where = sChrome \/ where = sChromium,
         firefox |-> where = sFirefox]

\* a test of the batch modes that lets qt5 through, against which
\* BatchNeedsHeadless is tried
BatchUnsupportedButQt5(f) == ~f.cef /\ ~f.chrome /\ ~f.firefox /\ ~f.qt5

\* if (!is_cef && !is_chrome && !is_firefox), asked of a batch window
BatchUnsupported(f) == ~f.cef /\ ~f.chrome /\ ~f.firefox

\* if (!displ || (*displ == 0))
NoDisplay(displ) == displ = "null" \/ displ = "empty"

\* the template the if-else chain of the modes picks, by name, and its text
ExecFor(f, batch, where, tc, sys) ==
    IF f.chrome
    THEN LET n == IF batch THEN "ChromeBatch" ELSE "ChromeInteractive"
         IN  [name |-> n, text |-> Template(n, tc)]
    ELSE IF f.firefox
    THEN LET n == IF batch THEN "FirefoxBatch" ELSE "FirefoxInteractive"
         IN  [name |-> n, text |-> Template(n, tc)]
    ELSE IF ~f.native /\ ~f.cef /\ ~f.qt5 /\ where # sBrowser
    THEN IF HasDollar(where)
         THEN [name |-> "where", text |-> where]
         ELSE [name |-> "prog", text |-> <<"$prog", " ", "$url", " ", "&">>]
    ELSE IF sys = "TMacOSXSystem"
    THEN [name |-> "open", text |-> <<"open", " ", "'", "$url", "'">>]
    ELSE IF sys = "TWinNTSystem"
    THEN [name |-> "start", text |-> <<"start", " ", "$url">>]
    ELSE [name |-> "xdg-open", text |-> <<"xdg-open", " ", "'", "$url", "'", " ", "&">>]

\* the modes whose template comes from gEnv, and those that ask gSystem
ReadsTemplate(f) == f.chrome \/ f.firefox

AsksSystem(f, where) ==
    ~ReadsTemplate(f) /\ ~(~f.native /\ ~f.cef /\ ~f.qt5 /\ where # sBrowser)

\* exec.ReplaceAll for $url, $width and $height; a window keeps the width and
\* height 0 it is made with, which stand for 800 and 600
Substituted(text, url) ==
    ReplaceAll(ReplaceAll(ReplaceAll(text, "$url", Joined(url)), "$width", ToString(800)),
               "$height", ToString(600))

\* exec.Index("fork:") == 0
IsFork(exec) == Len(exec) > 0 /\ exec[1] = "fork:"

\* if (!args || (args->GetLast() <= 0)) after exec.Remove(0, 5)
TooFewArgs(exec) == NTokens(Tail(exec)) - 1 <= 0

\* a tag that holds the last digit of the process id only, against which
\* SpawnTagRoundTrip is tried
PidTagLastDigit(pid) == sPidPrefix \o <<Digits[(pid % 10) + 1]>>

\* std::string("pid:") + std::to_string((int)pid)
PidTag(pid) == sPidPrefix \o ToDec(pid)

-----------------------------------------------------------------------------
(* The record of the last call *)

\* no keys drawn
NoDraws == [ncoll |-> 0, ckey |-> "", key |-> ""]

\* what a Show has worked with when it returns: the url it has built, the
\* display mode it has resolved, the DISPLAY it has read, and, when it gives up
\* for want of a key, the keys it has drawn
Seen(url, where, displ, draws) ==
    [url |-> url, where |-> where, displ |-> displ, draws |-> draws]

NoneSeen == Seen(<<>>, <<>>, "", NoDraws)

NoLast ==
    [op |-> "none", ret |-> FALSE, win |-> 0, net |-> FALSE, calls |-> 0, cfg |-> NoCfg,
     url |-> <<>>, path |-> "", exec |-> "", fx |-> {}, key |-> "", pid |-> 0,
     tag |-> <<>>, threw |-> "", kills |-> <<>>,
     where |-> <<>>, displ |-> "", draws |-> NoDraws]

\* bool CreateHttpServer(bool with_http)
CreateHttpServer(with_http, U) ==
    \E in \in ServerInputs(fAddr, with_http, U) :
        LET r == CreateHttpServerOp(fAddr, with_http, in.cfg, in.nfail, in.rn)
        IN  /\ fServer' = TRUE
            /\ fAddr' = r.fAddr
            /\ last' = [NoLast EXCEPT !.op = "CreateHttpServer", !.ret = r.ret,
                            !.net = with_http, !.calls = r.calls, !.cfg = r.cfg,
                            !.fx = IF r.calls > 0 THEN {"bind"} ELSE {}]
            /\ UNCHANGED <<mgr, hasCef, hasQt5, msc, fIdCnt, wins, fKeys, wf, thr, engines>>

\* a counter that stops counting at 1, against which IdsIncrease is tried
NextIdStuck(cnt) == IF cnt = 0 THEN 1 ELSE cnt

\* win->SetId(++fIdCnt)
NextId(cnt) == cnt + 1

\* std::shared_ptr<TWebWindow> CreateWindow(bool batch_mode), for at most
\* limit windows; webbatch is gROOT->IsWebDisplayBatch(). fMgr is what
\* win->fMgr = Instance() stores, registered the manager whose fServer has
\* registered the window's handler.
CreateWindow(batch_mode, webbatch, limit) ==
    /\ Len(wins) < limit
    /\ LET r == CreateHttpServerOp(fAddr, DefaultWithHttp, CHOOSE c \in Cfgs : TRUE, 0, 1)
           id == NextId(fIdCnt)
       IN  /\ r.ret
           /\ fServer' = TRUE
           /\ fAddr' = r.fAddr
           /\ fIdCnt' = id
           /\ wins' = Append(wins, [fId |-> id, batch |-> batch_mode \/ webbatch,
                                    fWSHandler |-> TRUE, unreg |-> 0, shown |-> 0,
                                    fMgr |-> Instance, registered |-> mgr])
           /\ fKeys' = Append(fKeys, {})
           /\ last' = [NoLast EXCEPT !.op = "CreateWindow", !.ret = TRUE,
                           !.win = Len(wins) + 1]
    /\ UNCHANGED <<mgr, hasCef, hasQt5, msc, wf, thr, engines>>

\* void Unregister(TWebWindow &win): unreg counts the calls of
\* fServer->Unregister for the window's handler
Unregister(w) ==
    /\ w \in 1 .. Len(wins)
    /\ wins[w].unreg < MaxUnreg
    /\ wins' = [wins EXCEPT ![w].unreg = IF wins[w].fWSHandler THEN @ + 1 ELSE @]
    /\ last' = [NoLast EXCEPT !.op = "Unregister", !.ret = TRUE, !.win = w]
    /\ UNCHANGED <<mgr, hasCef, hasQt5, msc, fServer, fAddr, fIdCnt, fKeys, wf, thr, engines>>

\* std::string GetUrl(TWebWindow &win, bool remote)
GetUrl(w, remote, U) ==
    /\ w \in 1 .. Len(wins)
    /\ \E in \in ServerInputs(fAddr, remote, U) :
        LET r == GetUrlOp(fServer, fAddr, wins[w].fId, wins[w].batch, remote, in.cfg, in.nfail,
                           in.rn)
        IN  /\ fAddr' = r.fAddr
            /\ last' = [NoLast EXCEPT !.op = "GetUrl", !.ret = (r.url # <<>>), !.win = w,
                            !.net = remote, !.calls = r.calls, !.cfg = r.cfg,
                            !.url = r.url,
                            !.fx = IF r.calls > 0 THEN {"bind"} ELSE {}]
    /\ UNCHANGED <<mgr, hasCef, hasQt5, msc, fServer, fIdCnt, wins, fKeys, wf, thr, engines>>

-----------------------------------------------------------------------------
(* Show, step by step: each step either returns or goes on to the next *)

\* a Show that records its key before it knows how it returns, against which
\* FailedShowKeepsKeys is tried
ShowReturnKeyFirst(w, ret, path, exec, key, tag, addr, calls, fx, pid, seen) ==
    /\ fKeys' = IF w \in 1 .. Len(wins) /\ path # "nokey"
                THEN [fKeys EXCEPT ![w] = AddKey(@, key, tag)]
                ELSE fKeys
    /\ wins' = IF ret THEN [wins EXCEPT ![w].shown = @ + 1] ELSE wins
    /\ fAddr' = addr
    /\ last' = [NoLast EXCEPT !.op = "Show", !.ret = ret, !.win = w, !.path = path,
                    !.exec = exec, !.key = key, !.calls = calls, !.fx = fx, !.pid = pid,
                    !.url = seen.url, !.where = seen.where, !.displ = seen.displ,
                    !.draws = seen.draws]
    /\ UNCHANGED <<mgr, hasCef, hasQt5, msc, fServer, fIdCnt, wf, thr, engines>>

\* a return of Show for window w: what it leaves in fAddr, the key and tag it
\* has added to the window's table if it returns true, and what it has done
\* (fx: calls of an engine, of CreateEngine, of posix_spawn, of gSystem->Exec)
ShowReturn(w, ret, path, exec, key, tag, addr, calls, fx, pid, seen) ==
    /\ fKeys' = IF ret THEN [fKeys EXCEPT ![w] = AddKey(@, key, tag)] ELSE fKeys
    /\ wins' = IF ret THEN [wins EXCEPT ![w].shown = @ + 1] ELSE wins
    /\ fAddr' = addr
    /\ last' = [NoLast EXCEPT !.op = "Show", !.ret = ret, !.win = w, !.path = path,
                    !.exec = exec, !.key = key, !.calls = calls, !.fx = fx, !.pid = pid,
                    !.url = seen.url, !.where = seen.where, !.displ = seen.displ,
                    !.draws = seen.draws]
    /\ UNCHANGED <<mgr, hasCef, hasQt5, msc, fServer, fIdCnt, wf, thr, engines>>

\* from exec.ReplaceAll to the end: the fork: branch with posix_spawn, or
\* AddKey(key, where) and gSystem->Exec
ShowLaunch(w, key, where, e, url, calls, bind, displ) ==
    LET exec == Substituted(e.text, url)
        seen == Seen(url, where, displ, NoDraws)
    IN  IF IsFork(exec)
        THEN IF msc
             THEN ShowReturn(w, FALSE, "nofork", e.name, key, <<>>, fAddr', calls, bind, 0,
                             seen)
             ELSE IF TooFewArgs(exec)
             THEN ShowReturn(w, FALSE, "fewargs", e.name, key, <<>>, fAddr', calls, bind, 0,
                             seen)
             ELSE \E sp \in SpawnOutcomes :
                    IF sp.status # 0
                    THEN ShowReturn(w, FALSE, "spawnfail", e.name, key, <<>>, fAddr',
                                    calls, bind, 0, seen)
                    ELSE ShowReturn(w, TRUE, "fork", e.name, key, PidTag(sp.pid), fAddr',
                                    calls, bind \cup {"spawn"}, sp.pid, seen)
        ELSE ShowReturn(w, TRUE, "exec", e.name, key, where, fAddr', calls,
                        bind \cup {"exec"}, 0, seen)

\* if (!CreateHttpServer(true)) return false; addr = fAddr + addr; and the
\* choice of the command template
ShowHttp(w, key, where, f, local, U, displ) ==
    \E in \in ServerInputs(fAddr, TRUE, U) :
        LET r == CreateHttpServerOp(fAddr, TRUE, in.cfg, in.nfail, in.rn)
            bind == IF r.calls > 0 THEN {"bind"} ELSE {}
        IN  IF ~r.ret
            THEN ShowReturn(w, FALSE, "nohttp", "", key, <<>>, r.fAddr, r.calls, bind, 0,
                            Seen(local, where, displ, NoDraws))
            ELSE \E tc \in (IF ReadsTemplate(f) THEN TmplCfgs ELSE {"default"}),
                    sys \in (IF AsksSystem(f, where) THEN Systems ELSE {"TUnixSystem"}) :
                    /\ fAddr' = r.fAddr
                    /\ ShowLaunch(w, key, where,
                                  ExecFor(f, wins[w].batch, where, tc, sys),
                                  r.fAddr \o local, r.calls, bind, displ)

\* #ifdef R__HAS_QT5WEB: the Qt5 engine, when its symbol is found
ShowQt5(w, key, where, f, local, U, displ) ==
    IF hasQt5 /\ (f.native \/ f.qt5)
    THEN \E symbol_qt5 \in BOOLEAN :
            IF symbol_qt5
            THEN ShowReturn(w, TRUE, "qt5", "", key, sQt5, fAddr, 0, {"engine"}, 0,
                            Seen(local, where, displ, NoDraws))
            ELSE ShowHttp(w, key, where, f, local, U, displ)
    ELSE ShowHttp(w, key, where, f, local, U, displ)

\* #ifdef R__HAS_CEFWEB: the CEF engine, when the paths are there and its
\* symbol is found
ShowCef(w, key, where, f, local, U, displ) ==
    IF hasCef /\ (f.native \/ f.cef)
    THEN \E cef \in CefEnvs :
            IF cef = "ok"
            THEN ShowReturn(w, TRUE, "cef", "", key, sCef, fAddr, 0, {"engine"}, 0,
                            Seen(local, where, displ, NoDraws))
            ELSE ShowQt5(w, key, where, f, local, U, displ)
    ELSE ShowQt5(w, key, where, f, local, U, displ)

\* if (win.IsBatchMode()) { ... }; DISPLAY is read for a batch window in the
\* mode cef only
ShowBatch(w, key, where, f, local, U) ==
    IF wins[w].batch /\ BatchUnsupported(f)
    THEN ShowReturn(w, FALSE, "batchmode", "", key, <<>>, fAddr, 0, {}, 0,
                    Seen(local, where, "", NoDraws))
    ELSE IF wins[w].batch /\ f.cef
    THEN \E displ \in Displays :
            IF NoDisplay(displ)
            THEN ShowReturn(w, FALSE, "nodisplay", "", key, <<>>, fAddr, 0, {}, 0,
                            Seen(local, where, displ, NoDraws))
            ELSE ShowCef(w, key, where, f, local, U, displ)
    ELSE ShowCef(w, key, where, f, local, U, "")

\* bool Show(TWebWindow &win, const std::string &_where), with the keys d that
\* gRandom yields. A manager without a server has created no window: the
\* window it is then asked to show is one the caller has made.
Show(w, where_, d, U) ==
    IF ~fServer
    THEN ShowReturn(w, FALSE, "noserver", "", "", <<>>, fAddr, 0, {}, 0, NoneSeen)
    ELSE /\ w \in 1 .. Len(wins)
         /\ LET k == KeyLoop(fKeys[w], d)
            IN  IF k.ntry = 0
                THEN ShowReturn(w, FALSE, "nokey", "", k.key, <<>>, fAddr, 0, {}, 0,
                                Seen(<<>>, <<>>, "", d))
                ELSE \E webdisplay \in (IF where_ = sEmpty THEN WebDisplays ELSE {sEmpty}) :
                        LET where == Where(where_, webdisplay)
                            local == GetUrlOp(fServer, fAddr, wins[w].fId, wins[w].batch,
                                              FALSE, CHOOSE c \in Cfgs : TRUE, 0, 1).url
                        IN  ShowBatch(w, k.key, where, Flags(where, hasCef),
                                      KeyUrl(local, k.key), U)

-----------------------------------------------------------------------------
(* HaltClient *)

IntMax == 2147483647    \* the largest int, the type std::stoi converts to

\* isspace, for the characters of the tags
IsSpace(c) == c = " "

\* the string after its leading white space
RECURSIVE SkipSpace(_)
SkipSpace(s) == IF s # <<>> /\ IsSpace(Head(s)) THEN SkipSpace(Tail(s)) ELSE s

\* the longest prefix of decimal digits
RECURSIVE DigitRun(_)
DigitRun(s) ==
    IF s # <<>> /\ IsDigit(Head(s)) THEN <<Head(s)>> \o DigitRun(Tail(s)) ELSE <<>>

\* the value of the digits ds after the value v, with the sign: over when the
\* value leaves the range of int
RECURSIVE Accumulate(_, _, _)
Accumulate(v, ds, neg) ==
    IF ds = <<>> THEN [over |-> FALSE, v |-> v]
    ELSE LET d == DigitVal(Head(ds))
         IN  IF neg
             THEN IF v < -((IntMax - (IF d = 0 THEN 0 ELSE d - 1)) \div 10)
                  THEN [over |-> TRUE, v |-> 0]
                  ELSE Accumulate(v * 10 - d, Tail(ds), neg)
             ELSE IF v > (IntMax - d) \div 10
                  THEN [over |-> TRUE, v |-> 0]
                  ELSE Accumulate(v * 10 + d, Tail(ds), neg)

\* std::stoi(s): white space, an optional sign, decimal digits; the rest of
\* the string is ignored. It throws std::invalid_argument when there is no
\* digit and std::out_of_range when the value is not an int.
Stoi(s) ==
    LET t == SkipSpace(s)
        signed == t # <<>> /\ Head(t) \in {"-", "+"}
        ds == DigitRun(IF signed THEN Tail(t) ELSE t)
        a == Accumulate(0, ds, signed /\ Head(t) = "-")
    IN  IF ds = <<>> THEN [threw |-> "invalid_argument", val |-> 0]
        ELSE IF a.over THEN [threw |-> "out_of_range", val |-> 0]
        ELSE [threw |-> "none", val |-> a.v]

\* the whole of HaltClient(procid) in a build with (m) or without _MSC_VER: the
\* exception that leaves it, and the processes kill(pid, SIGKILL) is called for
HaltClientOp(procid, m) ==
    IF ~StartsWith(procid, sPidPrefix)
    THEN [threw |-> "none", kills |-> <<>>]
    ELSE LET r == Stoi(Substr(procid, 4))
         IN  IF r.threw # "none" THEN [threw |-> r.threw, kills |-> <<>>]
             ELSE IF ~m /\ r.val > 0 THEN [threw |-> "none", kills |-> <<r.val>>]
             ELSE [threw |-> "none", kills |-> <<>>]

\* void HaltClient(const std::string &procid)
HaltClient(procid) ==
    LET r == HaltClientOp(procid, msc)
    IN  /\ last' = [NoLast EXCEPT !.op = "HaltClient", !.ret = (r.threw = "none"),
                        !.tag = procid, !.threw = r.threw, !.kills = r.kills]
        /\ UNCHANGED <<mgr, hasCef, hasQt5, msc, fServer, fAddr, fIdCnt, wins, fKeys, wf, thr, engines>>

MaxSuf == 2         \* the length of what follows the prefix of a tag

\* the characters of the tags
TagChars == {"0", "7", "a", "-", " "}

\* the strings of at most n characters
StringsUpTo(n) == UNION {[1 .. k -> TagChars] : k \in 0 .. n}

\* numbers that are no int: eleven digits, and the digits of IntMax + 1, which
\* are those of an int after a "-"
sHuge == <<"9", "9", "9", "9", "9", "9", "9", "9", "9", "9", "9">>
sPastMax == <<"2", "1", "4", "7", "4", "8", "3", "6", "4", "8">>

\* the tags HaltClient is called with: with and without the prefix "pid:"
Tags ==
    {pre \o suf : pre \in {sPidPrefix, <<>>, <<"p", "i", "d">>, <<"x">> \o sPidPrefix},
                  suf \in StringsUpTo(MaxSuf)}
        \cup {sPidPrefix \o sign \o n : sign \in {<<>>, <<"-">>}, n \in {sHuge, sPastMax}}
        \cup {sPidPrefix \o ToDec(p) : p \in {IntMax, MaxPid}}

-----------------------------------------------------------------------------
(* WaitFor: time is counted in ticks, and a tick is what the shortest sleep takes *)

MaxLimit == 2       \* the largest timelimit, and the largest WebGui.WaitForTmout
MaxDt == 2          \* the longest time from one reading of the stopwatch to the next
MaxN == 3           \* the latest invocation at which check returns a value other than 0

\* the values check returns that are not 0
CheckVals == {7, -1}

\* the time up to which a call is followed
WaitCap == MaxLimit + MaxN * MaxDt

NoWait ==
    [pc |-> "idle", arg |-> 0, tmout |-> 0, timelimit |-> 0, n |-> 0, v |-> 0,
     spent |-> 0, res |-> 0, cnt |-> 0, calls |-> 0, ret |-> 0]

\* the check function: 0 up to its n-th invocation, where it returns v; n = 0
\* is the function that returns 0 always
Check(n, v, call) == IF call = n THEN v ELSE 0

\* a WaitFor that keeps a negative time limit as it is, against which
\* WaitForeverAtZero is tried
TimeLimitKept(timelimit, tmout) == timelimit

\* if (timelimit < 0) timelimit = gEnv->GetValue("WebGui.WaitForTmout", 100.)
TimeLimit(timelimit, tmout) == IF timelimit < 0 THEN tmout ELSE timelimit

\* a WaitFor without a time limit, against which WaitReturnsValueInTime is tried
ExpiredNever(timelimit, spent) == FALSE

\* a WaitFor that lets one tick more pass, against which WaitTimesOut is tried
ExpiredLate(timelimit, spent) == timelimit > 0 /\ spent > timelimit + 1

\* (timelimit > 0) && (spent > timelimit)
Expired(timelimit, spent) == timelimit > 0 /\ spent > timelimit

\* int WaitFor(WebWindowWaitFunc_t check, double timelimit): the call, up to
\* the loop; arg is the timelimit of the caller and tmout the value of
\* WebGui.WaitForTmout at the time of the call
WaitForCall(timelimit, tmout, n, v) ==
    /\ wf.pc \in {"idle", "done"}
    /\ wf' = [NoWait EXCEPT !.pc = "check", !.arg = timelimit, !.tmout = tmout,
                            !.timelimit = TimeLimit(timelimit, tmout),
                            !.n = n, !.v = v]
    /\ UNCHANGED mgrVars

\* while ((res = check(spent)) == 0), and return res after the loop
WaitCheck ==
    /\ wf.pc = "check"
    /\ LET res == Check(wf.n, wf.v, wf.calls + 1)
       IN  wf' = [wf EXCEPT !.calls = @ + 1, !.res = res,
                            !.pc = IF res = 0 THEN "sleep" ELSE "done", !.ret = res]
    /\ UNCHANGED mgrVars

\* the body of the loop: ProcessEvents, Sleep(10), spent = tm.RealTime(), and
\* return 0 when the time is over, or cnt++
WaitSleep ==
    /\ wf.pc = "sleep"
    /\ \E dt \in 1 .. MaxDt :
        /\ wf.spent + dt <= WaitCap
        /\ wf' = IF Expired(wf.timelimit, wf.spent + dt)
                 THEN [wf EXCEPT !.spent = @ + dt, !.pc = "done", !.ret = 0]
                 ELSE [wf EXCEPT !.spent = @ + dt, !.cnt = @ + 1, !.pc = "check"]
    /\ UNCHANGED mgrVars

-----------------------------------------------------------------------------
(* CreateHttpServer(true), called by threads: nothing in it is guarded, so  *)
(* the threads' statements interleave. A step is one access of fAddr or    *)
(* one call of CreateEngine, with the thread's own computation around it.  *)

Threads == {"t1", "t2"}

\* a thread that is not in CreateHttpServer
NoThread ==
    [pc |-> "idle", cfg |-> NoCfg, host |-> DefaultHost, ntry |-> 0, http_port |-> 0,
     port |-> 0, calls |-> 0, ret |-> FALSE]

NoThreads == [t \in Threads |-> NoThread]

\* what the threads read from gEnv: no fixed port and a range of two ports, or
\* a fixed port
RaceCfgs ==
    {c \in Cfgs : /\ c.host = DefaultHost
                  /\ <<c.http_min, c.http_max>> = <<8800, 8802>>
                  /\ c.http_port >= 0}

\* lines 97-125: the server object is made, fAddr is tested, gEnv is read and
\* ntry is set
ThrCall(t, cfg) ==
    /\ thr[t].pc = "idle"
    /\ fServer' = TRUE
    /\ thr' = [thr EXCEPT ![t] =
                IF AlreadyDone(TRUE, fAddr)
                THEN [NoThread EXCEPT !.pc = "done", !.ret = TRUE]
                ELSE IF cfg.http_port < 0
                THEN [NoThread EXCEPT !.pc = "done", !.cfg = PortCfg(cfg)]
                ELSE [NoThread EXCEPT !.pc = "loop", !.cfg = PortCfg(cfg),
                                      !.host = cfg.host, !.ntry = TryCount(cfg),
                                      !.http_port = cfg.http_port]]
    /\ UNCHANGED <<mgr, hasCef, hasQt5, msc, fAddr, fIdCnt, wins, fKeys, last, wf, engines>>

\* lines 127-155 and 162: the loop test, the port of this pass, and the call of
\* CreateEngine, which can succeed (ok) on a port this server does not listen
\* on yet
ThrAttempt(t, rn, ok) ==
    /\ thr[t].pc = "loop"
    /\ LET me == thr[t]
           port == AttemptPort(me.http_port, me.cfg, rn)
       IN  IF ~(me.ntry >= 0) \/ BadRange(me.http_port, me.cfg)
           THEN /\ thr' = [thr EXCEPT ![t].pc = "done", ![t].ret = FALSE,
                                      ![t].ntry = me.ntry - 1]
                /\ engines' = engines
           ELSE IF ok /\ port \notin engines
           THEN /\ thr' = [thr EXCEPT ![t].pc = "assign", ![t].ntry = me.ntry - 1,
                                      ![t].calls = me.calls + 1, ![t].port = port]
                /\ engines' = engines \cup {port}
           ELSE /\ thr' = [thr EXCEPT ![t].ntry = me.ntry - 1,
                                      ![t].calls = me.calls + 1, ![t].http_port = 0]
                /\ engines' = engines
    /\ UNCHANGED <<mgr, hasCef, hasQt5, msc, fServer, fAddr, fIdCnt, wins, fKeys, last, wf>>

\* line 158: fAddr = url.Data()
ThrAssign(t) ==
    /\ thr[t].pc = "assign"
    /\ fAddr' = SubSeq(BoundAddr(thr[t].host, thr[t].port), 1, 2)
    /\ thr' = [thr EXCEPT ![t].pc = "colon"]
    /\ UNCHANGED <<mgr, hasCef, hasQt5, msc, fServer, fIdCnt, wins, fKeys, last, wf, engines>>

\* line 159: fAddr.append(":")
ThrAppendColon(t) ==
    /\ thr[t].pc = "colon"
    /\ fAddr' = fAddr \o <<":">>
    /\ thr' = [thr EXCEPT ![t].pc = "number"]
    /\ UNCHANGED <<mgr, hasCef, hasQt5, msc, fServer, fIdCnt, wins, fKeys, last, wf, engines>>

\* lines 160-161: fAddr.append(std::to_string(http_port)); return true
ThrAppendPort(t) ==
    /\ thr[t].pc = "number"
    /\ fAddr' = fAddr \o <<ToString(thr[t].port)>>
    /\ thr' = [thr EXCEPT ![t].pc = "done", ![t].ret = TRUE]
    /\ UNCHANGED <<mgr, hasCef, hasQt5, msc, fServer, fIdCnt, wins, fKeys, last, wf, engines>>

-----------------------------------------------------------------------------
(* The specifications *)

Init ==
    /\ mgr \in Managers
    /\ hasCef = FALSE
    /\ hasQt5 = FALSE
    /\ msc = FALSE
    /\ fServer = FALSE
    /\ fAddr = <<>>
    /\ fIdCnt = 0
    /\ wins = <<>>
    /\ fKeys = <<>>
    /\ last = NoLast
    /\ wf = NoWait
    /\ thr = NoThreads
    /\ engines = {}

MaxSrvWin == 1      \* windows created in one run of the specification of the server

Next ==
    \/ \E with_http \in BOOLEAN : CreateHttpServer(with_http, SrvU)
    \/ \E batch_mode \in BOOLEAN : CreateWindow(batch_mode, FALSE, MaxSrvWin)
    \/ \E w \in 1 .. MaxSrvWin, remote \in BOOLEAN : GetUrl(w, remote, SrvU)

Spec == Init /\ [][Next]_vars

\* the builds: with or without the CEF and Qt5 engines (R__HAS_CEFWEB,
\* R__HAS_QT5WEB), and a build with MSVC (_MSC_VER)
Builds ==
    {<<FALSE, FALSE, FALSE>>, <<TRUE, FALSE, FALSE>>, <<FALSE, TRUE, FALSE>>,
     <<TRUE, TRUE, FALSE>>, <<FALSE, FALSE, TRUE>>}

\* Show is called by a window on the manager its fMgr names: Instance()
InitShow ==
    /\ mgr = Instance
    /\ \E b \in Builds : hasCef = b[1] /\ hasQt5 = b[2] /\ msc = b[3]
    /\ fServer = FALSE
    /\ fAddr = <<>>
    /\ fIdCnt = 0
    /\ wins = <<>>
    /\ fKeys = <<>>
    /\ last = NoLast
    /\ wf = NoWait
    /\ thr = NoThreads
    /\ engines = {}

MaxShowWin == 1     \* windows created in one run of the specification of Show

NextShow ==
    \/ \E with_http \in BOOLEAN : CreateHttpServer(with_http, ShowU)
    \/ \E batch_mode \in BOOLEAN : CreateWindow(batch_mode, FALSE, MaxShowWin)
    \/ \E w \in 1 .. MaxShowWin : GetUrl(w, TRUE, ShowU)
    \/ \E w \in 1 .. MaxShowWin, d \in KeyDraws, where_ \in WhereSet : Show(w, where_, d, ShowU)
    \/ \E w \in 1 .. Len(wins) : \E e \in fKeys[w] : HaltClient(e[2])

SpecShow == InitShow /\ [][NextShow]_vars

\* windows: created, asked for their url, and unregistered when destroyed
NextWin ==
    \/ \E batch_mode \in BOOLEAN, webbatch \in BOOLEAN :
            CreateWindow(batch_mode, webbatch, MaxWin)
    \/ \E w \in 1 .. MaxWin : Unregister(w)
    \/ \E w \in 1 .. MaxWin : GetUrl(w, FALSE, SrvU)

SpecWin == Init /\ [][NextWin]_vars

\* HaltClient, in a build with and in a build without MSVC
InitHalt ==
    /\ mgr \in Managers
    /\ hasCef = FALSE
    /\ hasQt5 = FALSE
    /\ msc \in BOOLEAN
    /\ fServer = FALSE
    /\ fAddr = <<>>
    /\ fIdCnt = 0
    /\ wins = <<>>
    /\ fKeys = <<>>
    /\ last = NoLast
    /\ wf = NoWait
    /\ thr = NoThreads
    /\ engines = {}

NextHalt == \E procid \in Tags : HaltClient(procid)

SpecHalt == InitHalt /\ [][NextHalt]_vars

\* WaitFor: timelimit < 0 asks for the configured WebGui.WaitForTmout
NextWait ==
    \/ \E timelimit \in -1 .. MaxLimit, tmout \in -1 .. MaxLimit, n \in 0 .. MaxN,
          v \in CheckVals :
            WaitForCall(timelimit, tmout, n, IF n = 0 THEN 0 ELSE v)
    \/ WaitCheck
    \/ WaitSleep

SpecWait == Init /\ [][NextWait]_vars

\* the thread that calls WaitFor goes on running: check returns, and so does
\* Sleep
SpecWaitFair == SpecWait /\ WF_vars(WaitCheck) /\ WF_vars(WaitSleep)

\* two threads, each calling CreateHttpServer(true) once on the same manager
NextRace ==
    \/ \E t \in Threads, cfg \in RaceCfgs : ThrCall(t, cfg)
    \/ \E t \in Threads, rn \in RndNums, ok \in BOOLEAN : ThrAttempt(t, rn, ok)
    \/ \E t \in Threads : ThrAssign(t)
    \/ \E t \in Threads : ThrAppendColon(t)
    \/ \E t \in Threads : ThrAppendPort(t)

SpecRace == Init /\ [][NextRace]_vars


-----------------------------------------------------------------------------
(* Properties of CreateHttpServer, under Spec *)

\* C1: once CreateHttpServer(true) has returned true, every later
\* CreateHttpServer(true) returns true, leaves fAddr as it is and calls
\* CreateEngine no more. In steps: a CreateHttpServer(true) that returns true
\* leaves an address in fAddr; no call changes an address that is in fAddr; and
\* a CreateHttpServer(true) that finds an address in fAddr returns true without
\* a call of CreateEngine.
IdempotentServer ==
    [][/\ (last'.op = "CreateHttpServer" /\ last'.net /\ last'.ret => fAddr' # <<>>)
       /\ (fAddr # <<>> => fAddr' = fAddr)
       /\ (fAddr # <<>> /\ last'.op = "CreateHttpServer" /\ last'.net
              => last'.ret /\ last'.calls = 0 /\ "bind" \notin last'.fx)]_vars

\* C1: a CreateHttpServer(true) has returned true without binding, which it
\* does when an earlier one has bound the address
ServerAskedAgain ==
    /\ last.op = "CreateHttpServer" /\ last.net /\ last.ret
    /\ last.calls = 0 /\ fAddr # <<>>

\* the range [http_min, http_max) the code accepts
ValidRange(cfg) == cfg.http_min > 0 /\ cfg.http_max > cfg.http_min

\* C2: with a valid range of k ports and no fixed port, a CreateHttpServer(true)
\* all of whose CreateEngine calls fail returns false after at most min(100, k)
\* calls of CreateEngine, and leaves fAddr empty
BoundedRetry ==
    last.op = "CreateHttpServer" /\ last.net /\ ~last.ret
        /\ last.cfg.http_port = 0 /\ ValidRange(last.cfg)
    => /\ last.calls <= Min(NTry, last.cfg.http_max - last.cfg.http_min)
       /\ fAddr = <<>>

\* C2: what the loop does: one call of CreateEngine more than that
RetryOneMore ==
    last.op = "CreateHttpServer" /\ last.net /\ ~last.ret
        /\ last.cfg.http_port = 0 /\ ValidRange(last.cfg)
    => /\ last.calls = Min(NTry, last.cfg.http_max - last.cfg.http_min) + 1
       /\ fAddr = <<>>

\* C2: all the calls of CreateEngine have failed, in a range of two ports and
\* in a range of more than a hundred
RetriedInVain ==
    /\ last.op = "CreateHttpServer" /\ last.net /\ ~last.ret
    /\ last.cfg.http_port = 0 /\ ValidRange(last.cfg)
    /\ last.calls > NTry

-----------------------------------------------------------------------------
(* Properties of CreateWindow, under SpecWin *)

\* C3: of the windows created, those since unregistered among them, every one
\* has an id above 0 and above the id of every window created before it
IdsIncrease ==
    \A j \in 1 .. Len(wins) :
        /\ wins[j].fId > 0
        /\ \A i \in 1 .. j - 1 : wins[i].fId < wins[j].fId

\* C3: a window has been created after an earlier one was unregistered
CreatedAfterUnregister ==
    /\ last.op = "CreateWindow" /\ last.win = MaxWin
    /\ \E i \in 1 .. MaxWin - 1 : wins[i].unreg > 0

-----------------------------------------------------------------------------
(* Properties of Show, under SpecShow *)

\* the keys of a key table
Keys(table) == {e[1] : e \in table}

\* C4: the key a Show records is not in the window's key table before the call;
\* so the table of a window has as many entries as Show has returned true for
\* the window
KeysUnique ==
    /\ [](\A w \in 1 .. Len(wins) :
            /\ Cardinality(fKeys[w]) = wins[w].shown
            /\ Cardinality(Keys(fKeys[w])) = wins[w].shown)
    /\ [][last'.op = "Show" /\ last'.ret
            => /\ last'.key \notin Keys(fKeys[last'.win])
               /\ last'.key \in Keys(fKeys'[last'.win])]_vars

\* C4: Show has recorded a second key for a window
SecondKeyRecorded ==
    /\ last.op = "Show" /\ last.ret
    /\ Cardinality(fKeys[last.win]) = 2 /\ wins[last.win].shown = 2

\* the ways in which Show returns false
FailPaths ==
    {"noserver", "nokey", "batchmode", "nodisplay", "nohttp", "nofork", "fewargs",
     "spawnfail"}

\* C5: a Show that returns false leaves every key table as it was, and a Show
\* that returns true adds one entry, for the key it has drawn, to the table of
\* its window, and leaves the rest
FailedShowKeepsKeys ==
    [][last'.op = "Show"
        => IF last'.ret
           THEN LET w == last'.win
                    new == fKeys'[w] \ fKeys[w]
                IN  /\ \A u \in 1 .. Len(wins) : u # w => fKeys'[u] = fKeys[u]
                    /\ fKeys[w] \subseteq fKeys'[w]
                    /\ Cardinality(new) = 1
                    /\ \A e \in new : e[1] = last'.key
           ELSE fKeys' = fKeys /\ last'.path \in FailPaths]_vars

\* C5: Show has returned false from a window with a key in its table, for want
\* of arguments after fork:
FailedWithKeys ==
    /\ last.op = "Show" /\ ~last.ret /\ last.path = "fewargs"
    /\ fKeys[last.win] # {}

LateFailPaths == {"nofork", "fewargs", "spawnfail"}

RECURSIVE DigitsValue(_)
DigitsValue(s) ==
    IF s = <<>> THEN 0 ELSE DigitsValue(SubSeq(s, 1, Len(s) - 1)) * 10 + DigitVal(s[Len(s)])

\* s is the decimal of the number p > 0
IsDecimalOf(s, p) ==
    /\ s # <<>> /\ s[1] # "0"
    /\ \A i \in 1 .. Len(s) : IsDigit(s[i])
    /\ DigitsValue(s) = p

\* C8: a Show that succeeds with a spawned process p records, for its key, the
\* tag "pid:" followed by the decimal of p, and p > 0; and HaltClient, called
\* with that tag, sends one SIGKILL, to p
SpawnTagRoundTrip ==
    [][/\ (last'.op = "Show" /\ last'.path = "fork"
              => /\ last'.ret /\ last'.pid > 0
                 /\ \E e \in fKeys'[last'.win] :
                        /\ e[1] = last'.key
                        /\ StartsWith(e[2], sPidPrefix)
                        /\ IsDecimalOf(Substr(e[2], 4), last'.pid))
       /\ (last.op = "Show" /\ last.path = "fork" /\ last'.op = "HaltClient"
                /\ <<last.key, last'.tag>> \in fKeys[last.win]
              => last'.threw = "none" /\ last'.kills = <<last.pid>>)]_vars

\* C8: HaltClient has sent a SIGKILL to a spawned process of two digits
SpawnedHalted ==
    /\ last.op = "HaltClient" /\ last.kills = <<MaxPid>>
    /\ \E w \in 1 .. Len(wins) : \E e \in fKeys[w] : e[2] = last.tag

-----------------------------------------------------------------------------
(* Properties of HaltClient, under SpecHalt *)

\* s is "pid:" followed by decimal digits that make a number above 0
IsPositivePidTag(s) ==
    /\ StartsWith(s, sPidPrefix)
    /\ Len(s) > Len(sPidPrefix)
    /\ \A i \in Len(sPidPrefix) + 1 .. Len(s) : IsDigit(s[i])
    /\ \E i \in Len(sPidPrefix) + 1 .. Len(s) : s[i] # "0"

\* C7: HaltClient returns to its caller without an exception for every tag,
\* and sends no signal unless the tag is "pid:" followed by a positive decimal
\* integer
HaltNeverRaises ==
    last.op = "HaltClient"
    => /\ last.threw = "none"
       /\ last.kills # <<>> => IsPositivePidTag(last.tag)

\* C7: std::stoi has thrown out of HaltClient("pid:")
HaltRaised ==
    last.op = "HaltClient" /\ last.tag = sPidPrefix /\ last.threw = "invalid_argument"

-----------------------------------------------------------------------------
(* Properties of WaitFor, under SpecWait and SpecWaitFair *)

\* C9 as stated: with a check that returns v # 0 at its n-th invocation and 0
\* before, WaitFor returns v, whatever the time limit
WaitReturnsValue == wf.pc = "done" /\ wf.n > 0 => wf.ret = wf.v

\* C9, amended: WaitFor returns v, after n invocations of check, unless a
\* time limit above 0 is exceeded when the stopwatch is read after one of the
\* first n - 1 invocations: it then returns 0, and check is invoked less than n
\* times. Without a time limit above 0 it returns v.
WaitReturnsValueInTime ==
    wf.pc = "done" /\ wf.n > 0
    => IF wf.timelimit > 0 /\ wf.spent > wf.timelimit
       THEN wf.ret = 0 /\ wf.calls < wf.n
       ELSE wf.ret = wf.v /\ wf.calls = wf.n

\* C9: the time limit was exceeded before the invocation at which check would
\* have returned 7
WaitCutShort ==
    /\ wf.pc = "done" /\ wf.n = MaxN /\ wf.v = 7 /\ wf.ret = 0
    /\ wf.timelimit > 0 /\ wf.calls < wf.n

\* C10: with a time limit above 0 and a check that returns 0 always, WaitFor
\* returns 0 in the end; it returns when the stopwatch, read after a sleep, is
\* past the limit for the first time, so not more than one sleep past the
\* limit, and does not invoke check again
WaitTimesOut ==
    /\ [](wf.n = 0 /\ wf.timelimit > 0
            => /\ wf.pc \in {"check", "sleep"} => wf.spent <= wf.timelimit
               /\ wf.pc = "done"
                    => /\ wf.ret = 0
                       /\ wf.spent > wf.timelimit
                       /\ wf.spent <= wf.timelimit + MaxDt
                       /\ wf.calls = wf.cnt + 1)
    /\ ((wf.pc = "check" /\ wf.n = 0 /\ wf.timelimit > 0)
            ~> (wf.pc = "done" /\ wf.ret = 0))

\* C10: a WaitFor with a time limit has returned 0 after more than one sleep
WaitTimedOut ==
    /\ wf.pc = "done" /\ wf.n = 0 /\ wf.timelimit > 0 /\ wf.ret = 0
    /\ wf.spent > wf.timelimit /\ wf.cnt > 0

\* the time limit a call of WaitFor works with, by its argument and the
\* configured WebGui.WaitForTmout
LimitAsked == IF wf.arg < 0 THEN wf.tmout ELSE wf.arg

\* C11: with a time limit of 0 WaitFor returns only the first value of check
\* that is not 0, and never 0; a negative time limit stands for the configured
\* WebGui.WaitForTmout from before the loop on, and WaitFor returns 0 only
\* past a limit above 0, be it given or configured
WaitForeverAtZero ==
    /\ wf.pc # "idle" => wf.timelimit = LimitAsked
    /\ wf.pc = "done" /\ LimitAsked = 0
            => wf.n > 0 /\ wf.ret = wf.v /\ wf.ret # 0 /\ wf.calls = wf.n
    /\ wf.pc = "done" /\ wf.ret = 0 => LimitAsked > 0 /\ wf.spent > LimitAsked
    /\ wf.pc = "done" /\ wf.arg < 0 /\ wf.tmout > 0 /\ wf.spent > wf.tmout => wf.ret = 0

\* C11: a WaitFor with a negative time limit and a configured limit of 0 has
\* returned the value of check after more time than any limit allows
WaitedPastEveryLimit ==
    /\ wf.pc = "done" /\ wf.arg < 0 /\ wf.tmout = 0
    /\ wf.ret = 7 /\ wf.spent > MaxLimit

\* the url of a window with the key K, as it is to be: "/web7gui/", the name of
\* the window's handler, and the key after "/?batch_mode&key=" or "/?key="
UrlWanted(w, K) ==
    "/web7gui/" \o HandlerName(wins[w].fId)
        \o (IF wins[w].batch THEN "/?batch_mode&key=" ELSE "/?key=") \o K

\* the returns of Show that come before addr = fAddr + addr
LocalPaths == {"batchmode", "nodisplay", "cef", "qt5", "nohttp"}

\* the bound address as one string: scheme, host, ":" and port
AddrPrefix ==
    /\ Len(fAddr) = 4
    /\ fAddr[1] \in {"http://", "https://"} /\ fAddr[3] = ":"
    /\ \E port \in 1 .. 9800 : fAddr[4] = ToString(port)

\* C12: the url Show builds for a window and a key is "/web7gui/<name>/" with
\* "?batch_mode&key=<key>" for a batch window and "?key=<key>" for another
\* one, the key being joined with "&" exactly when the url holds a "?"; once
\* the server is bound, and in GetUrl(win, true), the bound address
\* scheme://host:port comes in front of the same path
ShowUrlExact ==
    /\ last.op = "Show" /\ last.path \notin {"noserver", "nokey"}
            => /\ last.path \in LocalPaths
                    => Joined(last.url) = UrlWanted(last.win, last.key)
               /\ last.path \notin LocalPaths
                    => /\ AddrPrefix
                       /\ Joined(last.url)
                            = Joined(fAddr) \o UrlWanted(last.win, last.key)
    /\ last.op = "GetUrl" /\ last.net /\ last.ret
            => /\ AddrPrefix
               /\ Joined(last.url) = Joined(fAddr) \o "/web7gui/"
                        \o HandlerName(wins[last.win].fId)
                        \o (IF wins[last.win].batch THEN "/?batch_mode" ELSE "/")

\* C12: a Show of a batch window has built its url behind the bound address
BatchUrlBuilt ==
    /\ last.op = "Show" /\ last.ret /\ last.path = "exec"
    /\ Joined(last.url) = "http://localhost:8800/web7gui/win1/?batch_mode&key=1"

\* C13: a CreateHttpServer(true) that finds no address bound and reads a
\* WebGui.HttpPort below 0 returns false without a call of CreateEngine and
\* leaves fAddr empty, whatever the range of ports is
NegativePortRefused ==
    [][fAddr = <<>> /\ last'.op = "CreateHttpServer" /\ last'.net
            /\ last'.cfg.http_port < 0
        => ~last'.ret /\ last'.calls = 0 /\ last'.fx = {} /\ fAddr' = <<>>]_vars

\* C13: a CreateHttpServer(true) has read a negative port and a range of ports
\* that is in order
NegativePortSeen ==
    /\ last.op = "CreateHttpServer" /\ last.net /\ ~last.ret
    /\ last.cfg.http_port < 0 /\ ValidRange(last.cfg) /\ fAddr = <<>>

\* C14: a CreateHttpServer(true) that finds no address bound and reads a range
\* of ports with http_max <= http_min or http_min <= 0 returns false without
\* a call of CreateEngine, be the fixed port zero or positive
BadRangeRefused ==
    [][fAddr = <<>> /\ last'.op = "CreateHttpServer" /\ last'.net
            /\ last'.cfg.http_port >= 0 /\ ~ValidRange(last'.cfg)
        => ~last'.ret /\ last'.calls = 0 /\ fAddr' = <<>>]_vars

\* C14: a CreateHttpServer(true) has bound the fixed port it has read along
\* with a range of ports that is not in order
BoundDespiteBadRange ==
    /\ last.op = "CreateHttpServer" /\ last.net /\ last.ret
    /\ last.cfg.http_port > 0 /\ ~ValidRange(last.cfg)
    /\ last.calls = 1 /\ fAddr = BoundAddr(DefaultHost, last.cfg.http_port)

\* the mode a Show has resolved is cef: "cef", or native (also the empty
\* string) in a build with R__HAS_CEFWEB
ModeIsCef == last.where = sCef \/ (hasCef /\ last.where \in {sEmpty, sNative})

\* the mode a Show has resolved can run without a window on screen
ModeIsHeadless == ModeIsCef \/ last.where \in {sChrome, sChromium, sFirefox}

\* C15: a Show of a batch window whose mode is none of cef, chrome, chromium
\* and firefox (native being cef only in a build with CEF) returns false
\* before any call of an engine, bind, spawn or shell command; and so does a
\* Show of a batch window in the mode cef when DISPLAY is unset or empty
BatchNeedsHeadless ==
    last.op = "Show" /\ last.path \notin {"noserver", "nokey"} /\ wins[last.win].batch
    => /\ ~ModeIsHeadless
            => ~last.ret /\ last.fx = {} /\ last.calls = 0 /\ last.path = "batchmode"
       /\ ModeIsCef => last.displ \in Displays
       /\ ModeIsCef /\ NoDisplay(last.displ)
            => ~last.ret /\ last.fx = {} /\ last.calls = 0 /\ last.path = "nodisplay"

\* C15: a Show of a batch window with no mode given, in a build with CEF, has
\* failed for an empty DISPLAY
BatchCefWithoutDisplay ==
    /\ last.op = "Show" /\ ~last.ret /\ last.path = "nodisplay"
    /\ wins[last.win].batch /\ hasCef
    /\ last.where = sEmpty /\ last.displ = "empty"

\* C16: over any sequence of Unregister calls for a window, fServer->Unregister
\* is called once for the window's handler: a call of Unregister for a window
\* already unregistered calls the server no more
UnregisteredOnce ==
    /\ \A w \in 1 .. Len(wins) : wins[w].unreg <= 1
    /\ last.op = "Unregister" => wins[last.win].unreg = 1

\* C16: the second Unregister of a window has called fServer->Unregister for
\* its handler a second time
UnregisteredTwice ==
    /\ last.op = "Unregister" /\ last.ret
    /\ wins[last.win].fWSHandler /\ wins[last.win].unreg = 2

-----------------------------------------------------------------------------
(* Properties of the windows' back-reference, under SpecWin *)

\* C17: a window that a manager has created, the default one or another, holds
\* that manager as its fMgr, which is the manager whose server has the
\* window's handler registered
BackReferenceIsCreator ==
    \A w \in 1 .. Len(wins) :
        wins[w].fMgr = mgr /\ wins[w].fMgr = wins[w].registered

\* C17: a manager other than the default one has created a window, which holds
\* the default manager as its fMgr
WindowOfMadeManager ==
    /\ mgr # Instance /\ last.op = "CreateWindow" /\ last.ret
    /\ wins[last.win].fMgr = Instance /\ wins[last.win].registered = mgr

-----------------------------------------------------------------------------
(* Properties of the key loop of Show, under SpecShow *)

\* C18: Show returns for want of a key only when every one of the 1000 keys it
\* has drawn, the 1000th among them, was in the window's key table
KeyFailureOnlyByCollision ==
    last.op = "Show" /\ last.path = "nokey"
    => /\ last.draws.ncoll > 0 => HasKey(fKeys[last.win], last.draws.ckey)
       /\ last.draws.ncoll < NKeyTry => HasKey(fKeys[last.win], last.draws.key)

\* C18: Show has returned for want of a key after 999 draws of a key in the
\* table and a 1000th draw of a key that is not in it
FreshKeyRefused ==
    /\ last.op = "Show" /\ ~last.ret /\ last.path = "nokey"
    /\ last.draws.ncoll = NKeyTry - 1
    /\ HasKey(fKeys[last.win], last.draws.ckey)
    /\ ~HasKey(fKeys[last.win], last.draws.key)

-----------------------------------------------------------------------------
(* Properties of the client Show starts, under SpecShow *)

\* the commands that open a window on screen: the default browser of the
\* system, and the interactive templates
ScreenLaunchers == {"xdg-open", "open", "start", "ChromeInteractive", "FirefoxInteractive"}

\* C19: no Show of a batch window that returns true has run the command of
\* the default browser or an interactive template; in the mode cef without
\* the engine at hand Show does not go on to the default browser
BatchNeverOnScreen ==
    last.op = "Show" /\ last.ret /\ wins[last.win].batch
    => last.exec \notin ScreenLaunchers

\* C19: a Show of a batch window in the mode cef, in a build without CEF, has
\* run xdg-open on the url and returned true
BatchCefInBrowser ==
    /\ last.op = "Show" /\ last.ret /\ last.path = "exec"
    /\ wins[last.win].batch /\ ~hasCef /\ last.where = sCef /\ last.displ = ":0"
    /\ last.exec = "xdg-open" /\ "exec" \in last.fx

\* C20: a tag of the shape "pid:<n>", and any tag that HaltClient turns into a
\* kill, gets into a key table only by a Show whose posix_spawn has returned
\* the process n; the engines and the shell command record no such tag,
\* whatever the where string is
OnlySpawnedHaltable ==
    [][last'.op = "Show" /\ last'.ret
        => \A e \in fKeys'[last'.win] :
              e[1] = last'.key
                  /\ (StartsWith(e[2], sPidPrefix) \/ HaltClientOp(e[2], FALSE).kills # <<>>)
              => /\ last'.path = "fork"
                 /\ IsDecimalOf(Substr(e[2], 4), last'.pid)]_vars

\* C20: a Show that has spawned no process but run a shell command has recorded
\* the where string "pid:7" as the tag of its key, for which HaltClient kills
\* the process 7
ShellTagHaltable ==
    /\ last.op = "Show" /\ last.ret /\ last.path = "exec" /\ last.pid = 0
    /\ "spawn" \notin last.fx /\ last.where = sPid7
    /\ <<last.key, sPid7>> \in fKeys[last.win]
    /\ HaltClientOp(sPid7, FALSE).kills = <<7>>

-----------------------------------------------------------------------------
(* Properties of CreateHttpServer(true) called by two threads, under SpecRace *)

\* the address a thread has bound: what lines 158-160 write for its port
ThreadAddr(t) == BoundAddr(thr[t].host, thr[t].port)

\* a thread is between line 158 and the return of line 161
Writing(t) == thr[t].pc \in {"colon", "number"}

\* C21: when two threads call CreateHttpServer(true) on a manager with no
\* address bound, in any interleaving, at most one call of CreateEngine
\* succeeds, and the address in fAddr, once written, is not replaced by another:
\* while no thread is writing fAddr, every thread that has returned from a
\* successful bind finds in fAddr the address it has bound
StickyFirstBind ==
    /\ Cardinality(engines) <= 1
    /\ (\A t \in Threads : ~Writing(t))
            => \A t \in Threads :
                    thr[t].pc = "done" /\ thr[t].ret /\ thr[t].calls > 0
                        => fAddr = ThreadAddr(t)

\* C21: both threads have bound a port and returned true, and fAddr holds the
\* address of the second in place of the address of the first
BoundTwice ==
    /\ thr["t1"].pc = "done" /\ thr["t1"].ret /\ thr["t1"].port = 8800
    /\ thr["t2"].pc = "done" /\ thr["t2"].ret /\ thr["t2"].port = 8801
    /\ engines = {8800, 8801}
    /\ fAddr = ThreadAddr("t2") /\ fAddr # ThreadAddr("t1")

====
